---------------------------- MODULE Spec2Model ----------------------------
(***************************************************************************)
(* A model of net_models.py (CrystalNet): the forward data flow of the     *)
(* network and of the blocks it is assembled from.                         *)
(*                                                                         *)
(* A feature tensor is modelled by its shape (B, C, H, W).  Every forward  *)
(* function is an operator that returns a result record: ok (no exception  *)
(* was raised), shape (the returned tensor's shape) and at (the path of    *)
(* the layer whose shape check raised).  The tensor engine's own layers    *)
(* (Conv2d, MaxPool2d, Upsample, ConvTranspose2d, F.pad, torch.cat,        *)
(* Linear) are modelled by their shape rules.                              *)
(*                                                                         *)
(* Values are modelled where a statement is about values: OutConv over     *)
(* the integers (exact arithmetic), TNet over a small binary floating      *)
(* point format (round to nearest, ties to even), and ThreeWayUNet by the  *)
(* set of parameter sets an output is computed from.                       *)
(*                                                                         *)
(* The state is a constructed module (net) and the record of the last      *)
(* forward call made on it (call).                                         *)
(***************************************************************************)
EXTENDS Integers, Sequences, FiniteSets, TLC

VARIABLES net, call

vars == <<net, call>>

-----------------------------------------------------------------------------
(* Bounds of the model. *)

\* Largest height and width of an input of UNet, ThreeWayUNet and CrystalNet.
MaxHW == 33
\* Largest height and width of the coarse input x1 of a direct call of Up.
MaxUpIn == 3
\* Largest height and width of the skip input x2 of a direct call of Up.
MaxUpSkip == 8
\* Largest number of glass layers of a call.
MaxG == 3
\* Largest magnitude of a value of an input tensor of OutConv and of a scalar.
MaxVal == 2
\* Number of weight updates a ThreeWayUNet under test receives at most.
MaxUpdates == 1
\* Significand width, in bits, of the floating point format of TNet's values.
MantissaBits == 3

-----------------------------------------------------------------------------
(* Shapes and results. *)

Shape(b, c, h, w) == [B |-> b, C |-> c, H |-> h, W |-> w]

NoShape == Shape(0, 0, 0, 0)

Ok(s) == [ok |-> TRUE, shape |-> s, at |-> <<>>]

Fail(layer) == [ok |-> FALSE, shape |-> NoShape, at |-> <<layer>>]

\* Op(v), with v evaluated once, as an assignment to a local variable does.
Let(v, Op(_)) == CHOOSE y \in {Op(x) : x \in {v}} : TRUE

\* An exception raised inside sub-module `name` propagates through its caller.
In(name, r) ==
    Let(r, LAMBDA x : IF x.ok THEN x ELSE [x EXCEPT !.at = <<name>> \o @])

\* The statement after one that raised is not executed.
Bind(r, Op(_)) == Let(r, LAMBDA x : IF x.ok THEN Op(x.shape) ELSE x)

-----------------------------------------------------------------------------
(* The tensor engine's layers, by their shape rules. *)

\* nn.Conv2d(in_channels, out_channels, kernel_size=k, padding=(k-1)/2): the
\* input must have in_channels channels; the spatial size is kept.
Conv2d(x, in_channels, out_channels) ==
    IF x.C = in_channels
    THEN Ok([x EXCEPT !.C = out_channels])
    ELSE Fail("conv")

\* nn.MaxPool2d(2, ceil_mode=True) in the place of nn.MaxPool2d(2).
MaxPool2d_Ceil(x) ==
    Ok([x EXCEPT !.H = (x.H + 1) \div 2, !.W = (x.W + 1) \div 2])

\* nn.MaxPool2d(2): floor-halves H and W; an output of size 0 is an error.
MaxPool2d(x) ==
    IF x.H \div 2 >= 1 /\ x.W \div 2 >= 1
    THEN Ok([x EXCEPT !.H = x.H \div 2, !.W = x.W \div 2])
    ELSE Fail("maxpool")

\* nn.Upsample(scale_factor=2, mode='bilinear', align_corners=True).
Upsample(x) == Ok([x EXCEPT !.H = 2 * x.H, !.W = 2 * x.W])

\* nn.ConvTranspose2d(in_channels, in_channels // 2, kernel_size=2, stride=2):
\* the output size is (H - 1) * 2 + 2.
ConvTranspose2d(x, in_channels) ==
    IF x.C = in_channels
    THEN Ok([x EXCEPT !.C = in_channels \div 2,
                      !.H = (x.H - 1) * 2 + 2, !.W = (x.W - 1) * 2 + 2])
    ELSE Fail("up")

\* F.pad(x, [left, right, top, bottom]): a negative pad crops.
FPad(x, left, right, top, bottom) ==
    IF x.H + top + bottom >= 0 /\ x.W + left + right >= 0
    THEN Ok([x EXCEPT !.H = x.H + top + bottom, !.W = x.W + left + right])
    ELSE Fail("pad")

\* torch.cat([a, b], dim=1): every dimension but the channels must agree.
Cat(a, b) ==
    IF a.B = b.B /\ a.H = b.H /\ a.W = b.W
    THEN Ok([a EXCEPT !.C = a.C + b.C])
    ELSE Fail("cat")

-----------------------------------------------------------------------------
(* Shared components. *)

\* DoubleConv; mid_channels = 0 stands for None.
DoubleConv(x, in_channels, out_channels, mid_channels) ==
    LET mid == IF mid_channels = 0 THEN out_channels ELSE mid_channels
    IN  Bind(In("conv1", Conv2d(x, in_channels, mid)),
             LAMBDA s : In("conv2", Conv2d(s, mid, out_channels)))

Down(x, in_channels, out_channels) ==
    Bind(MaxPool2d(x),
         LAMBDA s : In("conv", DoubleConv(s, in_channels, out_channels, 0)))

\* Up.__init__: the upsampling layer and the width of the DoubleConv's middle.
UpSample(x1, in_channels, bilinear) ==
    IF bilinear THEN Upsample(x1) ELSE ConvTranspose2d(x1, in_channels)

UpMid(in_channels, bilinear) == IF bilinear THEN in_channels \div 2 ELSE 0

\* The same pad on both sides, in the place of the floor and the remainder.
UpPads_Symmetric(diffX, diffY) ==
    <<diffX \div 2, diffX \div 2, diffY \div 2, diffY \div 2>>

\* The pads of Up.forward, in F.pad's order: left, right, top, bottom.
UpPads(diffX, diffY) ==
    <<diffX \div 2, diffX - diffX \div 2, diffY \div 2, diffY - diffY \div 2>>

\* Up.forward without its padding step.
Up_NoPad(x1, x2, in_channels, out_channels, bilinear) ==
    Let(UpSample(x1, in_channels, bilinear), LAMBDA u :
    Let(Bind(u, LAMBDA s : Cat(x2, s)), LAMBDA c :
    Let(Bind(c, LAMBDA s : In("conv",
             DoubleConv(s, in_channels, out_channels,
                        UpMid(in_channels, bilinear)))), LAMBDA r :
        [ok |-> r.ok, shape |-> r.shape, at |-> r.at, reached |-> TRUE,
         x1 |-> x1, x2 |-> x2, up |-> u.shape,
         diffY |-> x2.H - u.shape.H, diffX |-> x2.W - u.shape.W,
         pads |-> <<0, 0, 0, 0>>, padded |-> u.shape, cat |-> c.ok,
         catC |-> c.shape.C, in_channels |-> in_channels])))

\* A stage that a failure upstream kept from running.
NotReached(r) ==
    [ok |-> FALSE, shape |-> NoShape, at |-> r.at, reached |-> FALSE,
     x1 |-> NoShape, x2 |-> NoShape, up |-> NoShape, diffY |-> 0, diffX |-> 0,
     pads |-> <<0, 0, 0, 0>>, padded |-> NoShape, cat |-> FALSE, catC |-> 0,
     in_channels |-> 0]

\* Up.forward(x1, x2).  Besides the result, the record keeps what the stage
\* computed on the way: the differences, the pads, the padded x1 and the
\* channel count of the concatenation.
Up(x1, x2, in_channels, out_channels, bilinear) ==
    Let(UpSample(x1, in_channels, bilinear), LAMBDA u :
    IF ~u.ok
    THEN [NotReached(u) EXCEPT !.reached = TRUE, !.x1 = x1, !.x2 = x2,
                               !.in_channels = in_channels]
    ELSE
    LET diffY == x2.H - u.shape.H
        diffX == x2.W - u.shape.W
    IN  Let(UpPads(diffX, diffY), LAMBDA pads :
        Let(FPad(u.shape, pads[1], pads[2], pads[3], pads[4]), LAMBDA p :
        Let(Bind(p, LAMBDA s : Cat(x2, s)), LAMBDA c :
        Let(Bind(c, LAMBDA s : In("conv",
                 DoubleConv(s, in_channels, out_channels,
                            UpMid(in_channels, bilinear)))), LAMBDA r :
        [ok |-> r.ok, shape |-> r.shape, at |-> r.at, reached |-> TRUE,
         x1 |-> x1, x2 |-> x2, up |-> u.shape,
         diffY |-> diffY, diffX |-> diffX, pads |-> pads,
         padded |-> p.shape, cat |-> c.ok, catC |-> c.shape.C,
         in_channels |-> in_channels])))))

\* A decoder stage inside a network: it runs when its input was computed.
UpStage(name, r1, r2, in_channels, out_channels, bilinear) ==
    IF r1.ok
    THEN In(name, Up(r1.shape, r2.shape, in_channels, out_channels, bilinear))
    ELSE NotReached(r1)

OutConv(x, in_channels, out_channels) == Conv2d(x, in_channels, out_channels)

-----------------------------------------------------------------------------
(* UNet. *)

\* factor = 1 in both modes.
Factor_One(bilinear) == 1

Factor(bilinear) == IF bilinear THEN 2 ELSE 1

\* The encoder ladder that UNet.forward and ThreeWayUNet.forward both start
\* with: inc and down1 .. down4, giving x1 .. x5.
Encoder(x, n_channels, bilinear) ==
    Let(In("inc", DoubleConv(x, n_channels, 32, 0)), LAMBDA x1 :
    Let(Bind(x1, LAMBDA s : In("down1", Down(s, 32, 64))), LAMBDA x2 :
    Let(Bind(x2, LAMBDA s : In("down2", Down(s, 64, 128))), LAMBDA x3 :
    Let(Bind(x3, LAMBDA s : In("down3", Down(s, 128, 256))), LAMBDA x4 :
    Let(Bind(x4, LAMBDA s : In("down4",
                               Down(s, 256, 512 \div Factor(bilinear)))),
        LAMBDA x5 : <<x1, x2, x3, x4, x5>>)))))

\* The four Up stages and the OutConv of one decoder ladder over the encoder
\* outputs e = <<x1, .., x5>>; m names the five modules.
Decoder(e, m, n_classes, bilinear) ==
    LET f == Factor(bilinear)
    IN  Let(UpStage(m[1], e[5], e[4], 512, 256 \div f, bilinear), LAMBDA u1 :
        Let(UpStage(m[2], u1, e[3], 256, 128 \div f, bilinear), LAMBDA u2 :
        Let(UpStage(m[3], u2, e[2], 128, 64 \div f, bilinear), LAMBDA u3 :
        Let(UpStage(m[4], u3, e[1], 64, 32, bilinear), LAMBDA u4 :
        Let(IF u4.ok THEN In(m[5], OutConv(u4.shape, 32, n_classes))
                     ELSE [ok |-> FALSE, shape |-> NoShape, at |-> u4.at],
            LAMBDA o : [ok |-> o.ok, shape |-> o.shape, at |-> o.at,
                        ups |-> <<u1, u2, u3, u4>>])))))

UNetModules == <<"up1", "up2", "up3", "up4", "outc">>

UNetForward(x, n_channels, n_classes, bilinear) ==
    Let(Encoder(x, n_channels, bilinear),
        LAMBDA e : Decoder(e, UNetModules, n_classes, bilinear))

-----------------------------------------------------------------------------
(* ThreeWayUNet. *)

Group1 == <<"up_group_1_0", "up_group_1_1", "up_group_1_2", "up_group_1_3",
            "up_group_1_4">>
\* Group 2 built on the first stage of group 1.
Group2_Aliased ==
    <<"up_group_1_0", "up_group_2_1", "up_group_2_2", "up_group_2_3",
      "up_group_2_4">>

Group2 == <<"up_group_2_0", "up_group_2_1", "up_group_2_2", "up_group_2_3",
            "up_group_2_4">>
Group3 == <<"up_group_3_0", "up_group_3_1", "up_group_3_2", "up_group_3_3",
            "up_group_3_4">>
EncoderModules == <<"inc", "down1", "down2", "down3", "down4">>

Range(f) == {f[i] : i \in DOMAIN f}

\* Every sub-module ThreeWayUNet.__init__ creates: each owns its parameters.
ThreeWayModules ==
    Range(EncoderModules) \cup Range(Group1) \cup Range(Group2) \cup Range(Group3)

\* The parameter sets an output computed by the modules m from the encoder
\* outputs is a function of, each with the version of its weights.
ReadBy(m, ver) ==
    {<<n, ver[n]>> : n \in Range(EncoderModules) \cup Range(m)}

\* One decoder group of ThreeWayUNet.forward: m's four Up stages and OutConv.
GroupForward(e, m, n_classes, bilinear, ver) ==
    Let(Decoder(e, m, n_classes, bilinear), LAMBDA d :
        [ok |-> d.ok, shape |-> d.shape, at |-> d.at, ups |-> d.ups,
         params |-> IF d.ok THEN ReadBy(m, ver) ELSE {}])

NoGroup(r) ==
    [ok |-> FALSE, shape |-> NoShape, at |-> r.at, ups |-> <<>>, params |-> {}]

\* ThreeWayUNet.forward: out1 (normal), out2 (oi) and out3 (uv), in this order.
ThreeWayUNetForward(x, n_channels, n_classes, bilinear, ver) ==
    Let(Encoder(x, n_channels, bilinear), LAMBDA e :
    Let(GroupForward(e, Group1, 3, bilinear, ver), LAMBDA out1 :
    Let(IF out1.ok THEN GroupForward(e, Group2, n_classes, bilinear, ver)
                   ELSE NoGroup(out1), LAMBDA out2 :
    Let(IF out2.ok THEN GroupForward(e, Group3, 2, bilinear, ver)
                   ELSE NoGroup(out2), LAMBDA out3 :
        [ok |-> out3.ok, at |-> out3.at, out |-> <<out1, out2, out3>>]))))

-----------------------------------------------------------------------------
(* RNet, TNetBackBone and TNet, by shape. *)

RNet(x, in_channel, out_channel) ==
    Bind(Bind(Bind(In("layer0", Conv2d(x, in_channel, 32)),
                   LAMBDA s : In("layer1", Conv2d(s, 32, 64))),
              LAMBDA s : In("layer2", Conv2d(s, 64, 32))),
         LAMBDA s : In("layer3", Conv2d(s, 32, out_channel)))

TNetBackBone(x, in_channel, out_channel) ==
    Bind(Bind(Bind(In("layer1", Conv2d(x, in_channel, 64)),
                   LAMBDA s : In("layer2", Conv2d(s, 64, 128))),
              LAMBDA s : In("layer3", Conv2d(s, 128, 64))),
         LAMBDA s : In("layer4", Conv2d(s, 64, out_channel)))

\* A glass tensor has the shape (B, G, C, H, W); g[:, i, ...] is one slice.
GlassShape(b, n, c, h, w) == [B |-> b, G |-> n, C |-> c, H |-> h, W |-> w]

GlassSlice(g) == Shape(g.B, g.C, g.H, g.W)

\* result + t: the shapes must broadcast (equal, or 1 on one side).
Add(a, b) ==
    LET fits(m, n) == m = n \/ m = 1 \/ n = 1
        big(m, n)  == IF m >= n THEN m ELSE n
    IN  IF fits(a.B, b.B) /\ fits(a.C, b.C) /\ fits(a.H, b.H) /\ fits(a.W, b.W)
        THEN Ok(Shape(big(a.B, b.B), big(a.C, b.C), big(a.H, b.H), big(a.W, b.W)))
        ELSE Fail("add")

\* The loop of TNet.forward from glass index i on, the accumulator being r.
RECURSIVE TNetLoop(_, _, _, _, _, _)
TNetLoop(i, r, g, rx, in_channel, hidden) ==
    IF i > g.G \/ ~r.ok THEN r
    ELSE Let(Bind(Bind(Cat(rx, GlassSlice(g)),
                       LAMBDA s : In("tnet_f",
                                     TNetBackBone(s, in_channel, hidden))),
                  LAMBDA s : Add(r.shape, s)),
             LAMBDA a : TNetLoop(i + 1, a, g, rx, in_channel, hidden))

\* TNet.forward(g, rx), by shape.
TNetShape(g, rx, in_channel, hidden) ==
    Let(Ok(Shape(g.B, hidden, g.H, g.W)), LAMBDA zeros :
    Let(TNetLoop(1, zeros, g, rx, in_channel, hidden), LAMBDA acc :
    Let(Bind(acc, LAMBDA s : In("tnet_b", TNetBackBone(s, hidden, 16))),
        LAMBDA b :
        [ok |-> b.ok, shape |-> b.shape, at |-> b.at, acc |-> acc.shape,
         catC |-> IF g.G > 0 /\ Cat(rx, GlassSlice(g)).ok
                  THEN rx.C + g.C ELSE 0,
         in_channel |-> in_channel])))

-----------------------------------------------------------------------------
(* CNet and CrystalNet. *)

Min(a, b) == IF a <= b THEN a ELSE b

Max(a, b) == IF a >= b THEN a ELSE b

\* x[:, 4:7, :, :]: a slice takes the channels there are.
PositionSlice(x) == [x EXCEPT !.C = Max(0, Min(x.C, 7) - 4)]

\* fc_layer(in_features, out_features) on the position, its channels moved to
\* the last axis and back: nn.Linear needs in_features of them.
FcLayer(x, in_features, out_features) ==
    IF x.C = in_features THEN Ok([x EXCEPT !.C = out_features])
                         ELSE Fail("linear")

\* The sub-modules CNet.__init__ creates.
CNetInnerPos(position) == FcLayer(position, 3, 16)

\* UNet(38, 8) in the place of UNet(37, 8).
CNetUNet_38(x) == UNetForward(x, 38, 8, TRUE)

CNetUNet(x) == UNetForward(x, 37, 8, TRUE)

CNetTNet(g, rx) == TNetShape(g, rx, 8 + 17, 32)

CNetRUNet(rtx, n_oi) ==
    ThreeWayUNetForward(rtx, 24, n_oi, TRUE, [m \in ThreeWayModules |-> 0])

CNetRNetUv(uv) == RNet(uv, 2, 2)

CNetRNetNormal(normal) == RNet(normal, 3, 3)

\* A sub-module whose forward was not called.
NotRun(r) == [ok |-> FALSE, shape |-> NoShape, at |-> r.at, run |-> FALSE]

Ran(r) == Let(r, LAMBDA x : x @@ [run |-> TRUE])

\* CNet.forward(x, g).  The record keeps every intermediate result; out is
\* the returned tuple (normal, oi, uv), empty when an exception was raised.
CNetForward(x, g, n_oi) ==
    Let(Ran(In("inner_pos", CNetInnerPos(PositionSlice(x)))), LAMBDA pe :
    Let(IF pe.ok THEN Ran(Cat(x, pe.shape)) ELSE NotRun(pe), LAMBDA xcat :
    Let(IF xcat.ok THEN Ran(In("unet", CNetUNet(xcat.shape)))
                   ELSE NotRun(xcat), LAMBDA rx :
    Let(IF rx.ok THEN Ran(In("tnet", CNetTNet(g, rx.shape)))
                 ELSE NotRun(rx), LAMBDA tx :
    Let(IF tx.ok THEN Ran(Cat(rx.shape, tx.shape)) ELSE NotRun(tx), LAMBDA rtx :
    Let(IF rtx.ok THEN Ran(In("r_unet", CNetRUNet(rtx.shape, n_oi)))
                  ELSE NotRun(rtx), LAMBDA r3 :
    Let(IF r3.ok THEN Ran(In("rnet_uv", CNetRNetUv(r3.out[3].shape)))
                 ELSE NotRun(r3), LAMBDA uv :
    Let(IF uv.ok THEN Ran(In("rnet_normal", CNetRNetNormal(r3.out[1].shape)))
                 ELSE NotRun(uv), LAMBDA normal :
        [ok |-> normal.ok, at |-> normal.at,
         out |-> IF normal.ok
                 THEN <<normal.shape, r3.out[2].shape, uv.shape>> ELSE <<>>,
         inner_pos |-> pe, xcat |-> xcat, unet |-> rx, tnet |-> tx,
         rtx |-> rtx, r_unet |-> r3, rnet_uv |-> uv,
         rnet_normal |-> normal]))))))))

\* return n, d, o in the place of return n, o, d.
CrystalNetForward_Swapped(x, g, n_oi) ==
    Let(CNetForward(x, g, n_oi), LAMBDA r :
        [r EXCEPT !.at = IF r.ok THEN <<>> ELSE <<"cnet">> \o @,
                  !.out = IF r.ok THEN <<@[1], @[3], @[2]>> ELSE @])

\* CrystalNet.forward(x, g): n, o, d = self.cnet(x, g); return n, o, d.
CrystalNetForward(x, g, n_oi) ==
    Let(CNetForward(x, g, n_oi), LAMBDA r :
        [r EXCEPT !.at = IF r.ok THEN <<>> ELSE <<"cnet">> \o @])

-----------------------------------------------------------------------------
(* Values.  One element of a tensor is followed through a module whose      *)
(* layers have one channel each; a layer over a concatenation has one       *)
(* weight for each of the tensors concatenated.                             *)

RECURSIVE Pow2(_)
Pow2(n) == IF n = 0 THEN 1 ELSE 2 * Pow2(n - 1)

\* The value of the floating point format nearest to the integer v: the
\* significand has MantissaBits bits, a tie goes to the even significand.
RoundNearestEven(v) ==
    IF v < Pow2(MantissaBits) THEN v
    ELSE LET e    == CHOOSE k \in 1 .. 16 :
                        /\ v < Pow2(MantissaBits + k)
                        /\ v >= Pow2(MantissaBits + k - 1)
             ulp  == Pow2(e)
             q    == v \div ulp
             rest == v % ulp
         IN  IF 2 * rest < ulp \/ (2 * rest = ulp /\ q % 2 = 0)
             THEN q * ulp ELSE (q + 1) * ulp

Fl(v) == IF v < 0 THEN 0 - RoundNearestEven(0 - v) ELSE RoundNearestEven(v)

RECURSIVE Dot(_, _)
Dot(w, xs) ==
    IF w = <<>> THEN 0 ELSE Head(w) * Head(xs) + Dot(Tail(w), Tail(xs))

ReLU(v) == IF v > 0 THEN v ELSE 0

\* nn.Conv2d with its bias, then nn.ReLU, on float32 tensors.
ConvReLU(w, b, xs) == ReLU(Fl(Dot(w, xs) + b))

\* TNetBackBone.forward on the element xs, with the parameters p.
TNetBackBoneVal(p, xs) ==
    Let(ConvReLU(p.w[1], p.b[1], xs), LAMBDA l1 :
    Let(ConvReLU(p.w[2], p.b[2], <<l1>>), LAMBDA l2 :
    Let(ConvReLU(p.w[3], p.b[3], <<l2>>), LAMBDA l3 :
        ConvReLU(p.w[4], p.b[4], <<l3>>))))

\* torch.ones in the place of torch.zeros.
TNetZeros_Ones == 0 + 1

\* torch.zeros(r_shape, device="cuda"): the accumulator's first value.  The
\* module and its inputs are taken to be on that device.
TNetZeros == 0

\* result = self.tnet_f(...) in the place of result = result + self.tnet_f(...).
TNetAccumulate_Overwrite(result, t) == t

\* result + self.tnet_f(...), a float32 addition.
TNetAccumulate(result, t) == Fl(result + t)

\* The loop of TNet.forward on values, from glass index i on: gv[i] is the
\* element of glass slice i, rxv that of rx.
\* The result counts the passes of the loop body.
RECURSIVE TNetLoopVal(_, _, _, _, _)
TNetLoopVal(i, result, gv, rxv, tnet_f) ==
    IF i > Len(gv) THEN result
    ELSE Let([val |-> TNetAccumulate(result.val,
                          TNetBackBoneVal(tnet_f, <<rxv, gv[i]>>)),
              passes |-> result.passes + 1],
             LAMBDA a : TNetLoopVal(i + 1, a, gv, rxv, tnet_f))

\* TNet.forward(g, rx): the shapes, and the values when no shape check fails.
TNetForward(t, g, gv, rx, rxv) ==
    Let(TNetShape(g, rx, t.in_channel, t.hidden), LAMBDA s :
    Let(IF s.ok THEN TNetLoopVal(1, [val |-> TNetZeros, passes |-> 0],
                                 gv, rxv, t.tnet_f)
                ELSE [val |-> 0, passes |-> 0],
        LAMBDA acc :
        [ok |-> s.ok, shape |-> s.shape, at |-> s.at, acc |-> s.acc,
         passes |-> acc.passes, acc_val |-> acc.val,
         val |-> IF s.ok THEN TNetBackBoneVal(t.tnet_b, <<acc.val>>) ELSE 0]))

\* nn.Conv2d(..., bias=False) in the place of the default.
OutConvVal_NoBias(o, xs) == Dot(o.weight, xs)

\* OutConv.forward on the element xs: the 1x1 convolution with its bias, in
\* exact arithmetic.
OutConvVal(o, xs) == Dot(o.weight, xs) + o.bias

-----------------------------------------------------------------------------
(* The modules under test and the inputs of their calls. *)

Sizes == 1 .. MaxHW

\* Sizes around the multiples of 16, for the whole network.
NetSizes == {h \in Sizes : h % 16 \in {0, 1, 15}}

BatchSizes == {1, 2}

NoVersions == [m \in ThreeWayModules |-> 0]

CrystalNets == {[kind |-> "CrystalNet", n_oi |-> n] : n \in {1, 4}}

UNets ==
    {[kind |-> "UNet", n_channels |-> c[1], n_classes |-> c[2], bilinear |-> b] :
        c \in {<<3, 1>>, <<37, 8>>}, b \in BOOLEAN}

ThreeWayUNets ==
    {[kind |-> "ThreeWayUNet", n_channels |-> c[1], n_classes |-> c[2],
      bilinear |-> b, ver |-> NoVersions, updates |-> 0] :
        c \in {<<3, 1>>, <<24, 4>>}, b \in BOOLEAN}

Ups ==
    {[kind |-> "Up", in_channels |-> c[1], out_channels |-> c[2], bilinear |-> b] :
        c \in {<<4, 2>>, <<8, 3>>}, b \in BOOLEAN}

NoCall == [kind |-> "none"]

-----------------------------------------------------------------------------
(* The calls.  A module under test is constructed and called once. *)

\* CrystalNet.forward(x, g) with x of shape (B, Cx, H, W) and g of shape
\* (B, G, Cg, H, W).
CrystalNetCall ==
    /\ net.kind = "CrystalNet"
    /\ call = NoCall
    /\ \E b \in BatchSizes, cx \in {3, 6, 7, 20, 21, 22}, h \in NetSizes,
          w \in NetSizes, n \in 0 .. MaxG, cg \in {17, 18} :
          LET x == Shape(b, cx, h, w)
              g == GlassShape(b, n, cg, h, w)
          IN  call' = [kind |-> "CrystalNet", x |-> x, g |-> g,
                       res |-> CrystalNetForward(x, g, net.n_oi)]
    /\ UNCHANGED net

\* UNet.forward(x).
UNetCall ==
    /\ net.kind = "UNet"
    /\ call = NoCall
    /\ \E b \in BatchSizes, c \in {net.n_channels, net.n_channels + 1},
          h \in Sizes, w \in Sizes :
          LET x == Shape(b, c, h, w)
          IN  call' = [kind |-> "UNet", x |-> x,
                       res |-> UNetForward(x, net.n_channels, net.n_classes,
                                           net.bilinear)]
    /\ UNCHANGED net

\* ThreeWayUNet.forward(x), with heights and widths in S.
ThreeWayUNetCallOn(S) ==
    /\ net.kind = "ThreeWayUNet"
    /\ call = NoCall
    /\ \E b \in BatchSizes, c \in {net.n_channels, net.n_channels + 1},
          h \in S, w \in S :
          LET x == Shape(b, c, h, w)
          IN  call' = [kind |-> "ThreeWayUNet", x |-> x,
                       res |-> ThreeWayUNetForward(x, net.n_channels,
                                   net.n_classes, net.bilinear, net.ver)]
    /\ UNCHANGED net

ThreeWayUNetCall == ThreeWayUNetCallOn(Sizes)

\* Up.forward(x1, x2).
UpCall ==
    /\ net.kind = "Up"
    /\ call = NoCall
    /\ \E c1 \in {net.in_channels \div 2, net.in_channels},
          h1 \in 1 .. MaxUpIn, w1 \in 1 .. MaxUpIn,
          h2 \in 1 .. MaxUpSkip, w2 \in 1 .. MaxUpSkip :
          LET x1 == Shape(1, c1, h1, w1)
              x2 == Shape(1, net.in_channels \div 2, h2, w2)
          IN  call' = [kind |-> "Up", x1 |-> x1, x2 |-> x2,
                       res |-> Up(x1, x2, net.in_channels, net.out_channels,
                                  net.bilinear)]
    /\ UNCHANGED net

-----------------------------------------------------------------------------
(* The calls on values. *)

\* Parameters of a TNetBackBone: the weights w and the biases b of its four
\* layers.
Params(w1, w2, w3, w4, b) == [w |-> <<w1, <<w2>>, <<w3>>, <<w4>>>>, b |-> b]

\* tnet_f reads cat([rx, g[:, i]]): its first layer has two weights.
TNetFParams ==
    {Params(<<0, 1>>, 1, 1, 1, <<0, 0, 0, 0>>),
     Params(<<1, 1>>, 2, 1, 1, <<0, 0, 1, 0>>),
     Params(<<1, -1>>, 1, 1, 1, <<2, 0, 0, 0>>),
     Params(<<2, 1>>, 1, -1, 1, <<0, 0, 9, 1>>)}

TNetBParams ==
    {Params(<<1>>, 1, 1, 1, <<0, 0, 0, 0>>),
     Params(<<1>>, 1, 2, 1, <<0, 1, 0, 0>>),
     Params(<<-1>>, 1, 1, 1, <<12, 0, 0, 1>>)}

\* TNet(in_channel, hidden=32), as CNet constructs it.
TNets ==
    {[kind |-> "TNet", in_channel |-> 8 + 17, hidden |-> 32,
      tnet_f |-> f, tnet_b |-> b] : f \in TNetFParams, b \in TNetBParams}

\* The elements of the glass slices: small ones, and one a small one is
\* rounded away from when added to it.
GlassVals == {0, 1, Pow2(MantissaBits)}

\* TNet.forward(g, rx).
TNetCall ==
    /\ net.kind = "TNet"
    /\ call = NoCall
    /\ \E b \in BatchSizes, c \in {8, 9}, n \in 0 .. MaxG, rxv \in {0, 1} :
       \E gv \in [1 .. n -> GlassVals] :
          LET g  == GlassShape(b, n, 17, 16, 16)
              rx == Shape(b, c, 16, 16)
          IN  call' = [kind |-> "TNet", g |-> g, gv |-> gv, rx |-> rx,
                       rxv |-> rxv, res |-> TNetForward(net, g, gv, rx, rxv)]
    /\ UNCHANGED net

\* The channels of the element OutConv is followed on.
OutConvChannels == 2

OutConvs ==
    {[kind |-> "OutConv", weight |-> w, bias |-> b] :
        w \in [1 .. OutConvChannels -> {-1, 0, 2}], b \in {-1, 0, 1}}

Scalars == -1 .. MaxVal

Scale(a, t) == [i \in DOMAIN t |-> a * t[i]]

Plus(t1, t2) == [i \in DOMAIN t1 |-> t1[i] + t2[i]]

\* OutConv.forward on t1, on t2 and on a * t1 + b * t2.
OutConvCall ==
    /\ net.kind = "OutConv"
    /\ call = NoCall
    /\ \E a \in Scalars, b \in Scalars :
       \E t1 \in [1 .. OutConvChannels -> {0, 1}],
          t2 \in [1 .. OutConvChannels -> {0, 1}] :
          call' = [kind |-> "OutConv", a |-> a, b |-> b, t1 |-> t1, t2 |-> t2,
                   out1 |-> OutConvVal(net, t1), out2 |-> OutConvVal(net, t2),
                   out |-> OutConvVal(net, Plus(Scale(a, t1), Scale(b, t2)))]
    /\ UNCHANGED net

-----------------------------------------------------------------------------
(* Weight updates of a ThreeWayUNet. *)

\* One step of training changes the parameters of module m; the last call's
\* record stays, its input being the one the outputs are compared on.
UpdateWeights ==
    /\ net.kind = "ThreeWayUNet"
    /\ net.updates < MaxUpdates
    /\ \E m \in ThreeWayModules :
          net' = [net EXCEPT !.ver[m] = @ + 1, !.updates = @ + 1]
    /\ UNCHANGED call

\* ThreeWayUNet.forward(x) again, on the input of the last call.
ThreeWayUNetRecall ==
    /\ net.kind = "ThreeWayUNet"
    /\ call.kind = "ThreeWayUNet"
    /\ call' = [call EXCEPT !.res =
                   ThreeWayUNetForward(call.x, net.n_channels, net.n_classes,
                                       net.bilinear, net.ver)]
    /\ UNCHANGED net

IsoSizes == {16, 17}

ThreeWayUNetCallIso ==
    /\ net.n_channels = 24
    /\ ThreeWayUNetCallOn(IsoSizes)

-----------------------------------------------------------------------------
(* The specifications. *)

Init ==
    /\ net \in CrystalNets \cup UNets \cup ThreeWayUNets \cup Ups
    /\ call = NoCall

Next == CrystalNetCall \/ UNetCall \/ ThreeWayUNetCall \/ UpCall

Spec == Init /\ [][Next]_vars

\* TNet alone, on values.
InitTNet == net \in TNets /\ call = NoCall

NextTNet == TNetCall

SpecTNet == InitTNet /\ [][NextTNet]_vars

\* OutConv alone, on values.
InitOutConv == net \in OutConvs /\ call = NoCall

NextOutConv == OutConvCall

SpecOutConv == InitOutConv /\ [][NextOutConv]_vars

\* A ThreeWayUNet that is called, and called again as its weights change.
InitIso == net \in {n \in ThreeWayUNets : n.n_channels = 24} /\ call = NoCall

NextIso == ThreeWayUNetCallIso \/ UpdateWeights \/ ThreeWayUNetRecall

SpecIso == InitIso /\ [][NextIso]_vars

-----------------------------------------------------------------------------
(* Properties of the forward functions. *)

Odd(n) == n % 2 = 1

\* lo is the floor of d / 2.
IsFloorHalf(lo, d) == 2 * lo <= d /\ d < 2 * lo + 2

\* The Up stages of the last call that upsampled their input.
UpStagesOf(r) == {r.ups[i] : i \in {j \in DOMAIN r.ups : r.ups[j].up # NoShape}}

UpStages ==
    IF call.kind = "UNet" THEN UpStagesOf(call.res)
    ELSE IF call.kind = "ThreeWayUNet"
    THEN UNION {UpStagesOf(call.res.out[k]) : k \in 1 .. 3}
    ELSE IF call.kind = "CrystalNet"
    THEN (IF call.res.unet.run
          THEN UpStagesOf(call.res.unet) ELSE {})
         \cup (IF call.res.r_unet.run
               THEN UNION {UpStagesOf(call.res.r_unet.out[k]) : k \in 1 .. 3}
               ELSE {})
    ELSE {}

\* C1: CrystalNet.forward(x, g) with x of shape (B, 21, H, W), g of shape
\* (B, G, 17, H, W), B >= 1, G >= 0 and H, W multiples of 16 returns the three
\* tensors (normal, oi, uv) of shapes (B, 3, H, W), (B, n_oi, H, W) and
\* (B, 2, H, W), in this order.
C1_ForwardShapes ==
    (/\ call.kind = "CrystalNet"
     /\ call.x.C = 21 /\ call.g.C = 17
     /\ call.x.H % 16 = 0 /\ call.x.W % 16 = 0)
    => /\ call.res.ok
       /\ call.res.out = <<Shape(call.x.B, 3, call.x.H, call.x.W),
                           Shape(call.x.B, net.n_oi, call.x.H, call.x.W),
                           Shape(call.x.B, 2, call.x.H, call.x.W)>>

C1_Witness ==
    /\ call.kind = "CrystalNet" /\ call.res.ok
    /\ call.x = Shape(2, 21, 32, 16) /\ call.g.C = 17 /\ call.g.G = 0
    /\ net.n_oi = 4
    /\ call.res.out[2] = Shape(2, 4, 32, 16)

\* The glass slices of a call in the order p.
Permuted(gv, p) == [i \in DOMAIN gv |-> gv[p[i]]]

GlassOrders(n) == {p \in [1 .. n -> 1 .. n] : \A i \in 1 .. n : \E j \in 1 .. n : p[j] = i}

\* The partial sums of the loop, each slice's result added in exact arithmetic.
RECURSIVE PartialSums(_, _, _, _)
PartialSums(i, sum, gv, rxv) ==
    IF i > Len(gv) THEN {sum}
    ELSE {sum} \cup PartialSums(i + 1,
                        sum + TNetBackBoneVal(net.tnet_f, <<rxv, gv[i]>>), gv, rxv)

\* No addition of the loop over gv is rounded.
SumsExact(gv, rxv) == \A v \in PartialSums(1, 0, gv, rxv) : Fl(v) = v

\* C2 (as stated): TNet(g, rx) equals TNet(g permuted along the glass axis, rx)
\* exactly, for every glass count and every permutation.
C2_PermutationExact ==
    call.kind = "TNet" =>
        \A p \in GlassOrders(call.g.G) :
            TNetForward(net, call.g, Permuted(call.gv, p), call.rx, call.rxv)
                = call.res

\* C2 (amended): TNet(g, rx) equals TNet(g permuted, rx) exactly when there are
\* at most two glass layers, and for more of them when no addition of the
\* accumulation is rounded in either order.
C2_PermutationUpToRounding ==
    call.kind = "TNet" =>
        \A p \in GlassOrders(call.g.G) :
            (\/ call.g.G <= 2
             \/ /\ SumsExact(call.gv, call.rxv)
                /\ SumsExact(Permuted(call.gv, p), call.rxv))
            => TNetForward(net, call.g, Permuted(call.gv, p), call.rx, call.rxv)
                   = call.res

C2_Witness ==
    /\ call.kind = "TNet" /\ call.res.ok
    /\ call.g.G = 3
    /\ call.gv = <<1, 0, 1>>
    /\ \A p \in GlassOrders(3) : SumsExact(Permuted(call.gv, p), call.rxv)
    /\ call.res.acc_val = 2
    /\ call.res.val > 0

\* C3: with G = 0 TNet.forward does not fail: the loop body runs zero times,
\* the accumulator stays the all-zero tensor of shape (B, hidden, H, W) and the
\* result is tnet_b of that tensor, of shape (B, 16, H, W).
C3_NoGlass ==
    (call.kind = "TNet" /\ call.g.G = 0)
    => /\ call.res.ok
       /\ call.res.passes = 0
       /\ call.res.acc_val = 0
       /\ call.res.acc = Shape(call.g.B, net.hidden, call.g.H, call.g.W)
       /\ call.res.val = TNetBackBoneVal(net.tnet_b, <<0>>)
       /\ call.res.shape = Shape(call.g.B, 16, call.g.H, call.g.W)

C3_Witness ==
    /\ call.kind = "TNet" /\ call.g.G = 0 /\ call.res.ok
    /\ call.rx.C = 9
    /\ call.res.val > 0

\* C4: Up.forward pads x1 with dY // 2 rows on the low side and dY - dY // 2
\* on the high side (and likewise the columns), for every difference dY, dX
\* between x2 and the upsampled x1: the two pads add up to the difference, the
\* padded x1 has the spatial size of x2, and for dY = 1 the pad is (0, 1).
C4_PadSplit ==
    (call.kind = "Up" /\ call.res.up # NoShape)
    => LET r  == call.res
           dY == call.x2.H - r.up.H
           dX == call.x2.W - r.up.W
       IN  /\ r.diffY = dY /\ r.diffX = dX
           /\ IsFloorHalf(r.pads[3], dY) /\ r.pads[4] = dY - r.pads[3]
           /\ IsFloorHalf(r.pads[1], dX) /\ r.pads[2] = dX - r.pads[1]
           /\ r.pads[3] + r.pads[4] = dY /\ r.pads[1] + r.pads[2] = dX
           /\ r.padded.H = call.x2.H /\ r.padded.W = call.x2.W
           /\ r.cat
           /\ (dY = 1 => <<r.pads[3], r.pads[4]>> = <<0, 1>>)
           /\ (dX = 1 => <<r.pads[1], r.pads[2]>> = <<0, 1>>)

C4_Witness ==
    /\ call.kind = "Up" /\ call.res.ok
    /\ call.res.diffY = 1 /\ call.res.diffX = -3
    /\ call.res.pads = <<-2, -1, 0, 1>>

\* C5 (as stated): UNet.forward returns (B, n_classes, H, W) for an input
\* (B, n_channels, H, W) of every height and width.
C5_EverySize ==
    (call.kind = "UNet" /\ call.x.C = net.n_channels)
    => /\ call.res.ok
       /\ call.res.shape = Shape(call.x.B, net.n_classes, call.x.H, call.x.W)

\* C5 (amended): UNet.forward returns (B, n_classes, H, W) for an input
\* (B, n_channels, H, W) of every height and width of at least 16, odd ones
\* and ones that are no multiple of 16 included; with a height or a width
\* below 16 a max-pooling stage raises and nothing is returned.
C5_SizesFrom16 ==
    (call.kind = "UNet" /\ call.x.C = net.n_channels)
    => IF call.x.H >= 16 /\ call.x.W >= 16
       THEN /\ call.res.ok
            /\ call.res.shape =
                   Shape(call.x.B, net.n_classes, call.x.H, call.x.W)
       ELSE /\ ~call.res.ok
            /\ Len(call.res.at) = 2
            /\ call.res.at[1] \in {"down1", "down2", "down3", "down4"}
            /\ call.res.at[2] = "maxpool"

C5_Witness ==
    /\ call.kind = "UNet" /\ call.res.ok
    /\ call.x.C = net.n_channels
    /\ call.x.H = 17 /\ call.x.W = 27
    /\ call.res.shape = Shape(call.x.B, net.n_classes, 17, 27)

\* The groups of ThreeWayUNet, by number.
Groups == <<Group1, Group2, Group3>>

\* The three outputs of the network n on the input x.
Outputs(n, x) ==
    ThreeWayUNetForward(x, n.n_channels, n.n_classes, n.bilinear, n.ver).out

\* C6: the decoder groups of ThreeWayUNet own disjoint parameter sets: for a
\* fixed input, a change of the weights of modules of one group only leaves
\* the outputs of the other two groups unchanged.
C6_GroupIsolation ==
    [][\A k \in 1 .. 3 :
         (/\ call.kind = "ThreeWayUNet"
          /\ net'.ver # net.ver
          /\ \A m \in ThreeWayModules \ Range(Groups[k]) :
                net'.ver[m] = net.ver[m])
         => \A j \in (1 .. 3) \ {k} :
                Outputs(net', call.x)[j] = Outputs(net, call.x)[j]]_vars

C6_Witness ==
    /\ call.kind = "ThreeWayUNet" /\ call.res.ok
    /\ net.ver["up_group_1_0"] = 1
    /\ <<"up_group_1_0", 1>> \in call.res.out[1].params
    /\ \A m \in Range(Group1) : <<m, 1>> \notin call.res.out[2].params
    /\ Cardinality(call.res.out[2].params) = 10

\* C7 (as stated): OutConv(a * t1 + b * t2) = a * OutConv(t1) + b * OutConv(t2)
\* for all scalars a, b and all inputs t1, t2, OutConv having its bias.
C7_Linear ==
    call.kind = "OutConv" => call.out = call.a * call.out1 + call.b * call.out2

\* C7 (amended): OutConv is affine: OutConv(a * t1 + b * t2) equals
\* a * OutConv(t1) + b * OutConv(t2) + (1 - a - b) * bias, so the two sides of
\* the linearity identity agree exactly when (1 - a - b) * bias = 0.
C7_Affine ==
    call.kind = "OutConv"
    => /\ call.out = call.a * call.out1 + call.b * call.out2
                       + (1 - call.a - call.b) * net.bias
       /\ (call.out = call.a * call.out1 + call.b * call.out2)
              <=> ((1 - call.a - call.b) * net.bias = 0)

C7_Witness ==
    /\ call.kind = "OutConv"
    /\ net.bias = 1 /\ net.weight = <<2, -1>>
    /\ call.a = 2 /\ call.b = 2
    /\ call.t1 = <<1, 0>> /\ call.t2 = <<1, 1>>
    /\ call.out1 = 3 /\ call.out2 = 2 /\ call.out = 7

\* C8: at every channel concatenation the concatenated channel count is the
\* declared input-channel count of the layer that consumes it: in the four Up
\* stages of UNet and of each decoder group of ThreeWayUNet, with bilinear
\* True and False, and in CNet, where 21 + 16 = 37 feeds UNet, 8 + 17 = 25
\* feeds tnet_f and 8 + 16 = 24 feeds ThreeWayUNet.
C8_ChannelsAgree ==
    /\ \A u \in UpStages : u.cat => u.catC = u.in_channels
    /\ (call.kind = "UNet" /\ call.res.ok)
       => \A i \in 1 .. 4 : call.res.ups[i].cat /\ call.res.ups[i].ok
    /\ (call.kind = "ThreeWayUNet" /\ call.res.ok)
       => \A k \in 1 .. 3, i \in 1 .. 4 :
             call.res.out[k].ups[i].cat /\ call.res.out[k].ups[i].ok
    /\ call.kind = "CrystalNet"
       => /\ (call.x.C = 21 /\ call.res.xcat.ok)
             => /\ call.res.xcat.shape.C = 37
                /\ call.res.unet.run
                /\ call.res.unet.at # <<"unet", "inc", "conv1", "conv">>
          /\ (call.res.tnet.run /\ call.g.G > 0 /\ call.g.C = 17)
             => /\ call.res.tnet.catC = 25
                /\ call.res.tnet.catC = call.res.tnet.in_channel
                /\ call.res.tnet.ok
          /\ call.res.rtx.run
             => /\ call.res.rtx.ok
                /\ call.res.rtx.shape.C = 24
                /\ call.res.r_unet.run
                /\ call.res.r_unet.at # <<"r_unet", "inc", "conv1", "conv">>

C8_Witness ==
    /\ call.kind = "UNet" /\ call.res.ok /\ ~net.bilinear
    /\ call.x.H = 33
    /\ call.res.ups[1].catC = 512 /\ call.res.ups[4].catC = 64

\* C9: with x of Cx channels, Cx >= 7 and Cx # 21, the positional encoding and
\* the concatenation succeed and give Cx + 16 channels, the call fails at
\* UNet's first convolution, no (normal, oi, uv) is returned, and TNet,
\* ThreeWayUNet and RNet are never evaluated.
C9_WrongChannels ==
    (call.kind = "CrystalNet" /\ call.x.C >= 7 /\ call.x.C # 21)
    => /\ call.res.inner_pos.ok
       /\ call.res.xcat.ok
       /\ call.res.xcat.shape.C = call.x.C + 16
       /\ ~call.res.ok
       /\ call.res.at = <<"cnet", "unet", "inc", "conv1", "conv">>
       /\ call.res.out = <<>>
       /\ ~call.res.tnet.run /\ ~call.res.r_unet.run
       /\ ~call.res.rnet_uv.run /\ ~call.res.rnet_normal.run

C9_Witness ==
    /\ call.kind = "CrystalNet" /\ ~call.res.ok
    /\ call.x.C = 22 /\ call.x.H = 16
    /\ call.res.xcat.shape.C = 38
    /\ call.res.unet.run /\ ~call.res.tnet.run

\* C10: in UNet.forward and ThreeWayUNet.forward, for every input height and
\* width, each Up stage sees differences diffY and diffX that are 0 or 1: the
\* padding never crops, the low-side pad is 0, and the high-side pad is 1
\* exactly when the skip's dimension is odd.
C10_PadsInNetworks ==
    \A u \in UpStages :
        /\ u.diffY \in {0, 1} /\ u.diffX \in {0, 1}
        /\ u.pads[1] = 0 /\ u.pads[3] = 0
        /\ u.pads[2] = (IF Odd(u.x2.W) THEN 1 ELSE 0)
        /\ u.pads[4] = (IF Odd(u.x2.H) THEN 1 ELSE 0)

C10_Witness ==
    /\ call.kind = "ThreeWayUNet" /\ call.res.ok
    /\ call.x.H = 27 /\ call.x.W = 16
    /\ call.res.out[3].ups[4].pads = <<0, 0, 0, 1>>
    /\ call.res.out[3].ups[3].pads = <<0, 0, 0, 1>>
    /\ call.res.out[3].ups[2].pads = <<0, 0, 0, 0>>

=============================================================================
